---- MODULE Spec2Model ----
(***************************************************************************)
(* Linked-list variants of rust-practice:                                  *)
(*   src/src/deque.rs       doubly-linked deque, Rc<RefCell<Node<T>>>      *)
(*   src/src/persistent.rs  persistent singly-linked list, Rc<Node<T>>     *)
(*                                                                         *)
(* Nodes live in a heap indexed by node ids.  Every Rc is a node id, the   *)
(* Rc strong count and the RefCell borrow flag are fields of the heap      *)
(* cell, and every clone / drop / take / borrow of the source is an        *)
(* explicit update of those fields, in the order the source performs it.   *)
(* Node ids are handed out in allocation order and never reused, so that   *)
(* "released exactly once" is a statement about a cell.                    *)
(***************************************************************************)
EXTENDS Integers, Sequences, FiniteSets, TLC

\* ------------------------------------------------------------------ bounds
MaxNodes == 3      \* deque nodes ever allocated (pushes in one run)
MaxElem == 2       \* element values are 1..MaxElem
MaxBorrow == 1     \* shared views of one node alive at once
MaxLeaks == 1      \* views the caller forgets (mem::forget) in one run
MaxPNodes == 3     \* persistent nodes ever allocated (appends in one run)
MaxLists == 3      \* persistent List values alive at once

Elems == 1..MaxElem
NodeIds == 1..MaxNodes
PNodeIds == 1..MaxPNodes
PElems == 1..MaxPNodes     \* the k-th append of a run appends the value k
ListIds == 1..MaxLists

\* Option::None, for links and for optional results alike.
None == 0

VARIABLES
    head,       \* deque List.head : Link<T>
    tail,       \* deque List.tail : Link<T>
    nodes,      \* deque heap: id -> Node fields, Rc strong count, RefCell flag
    held,       \* views the caller holds: id -> (n > 0: n Ref, -1: one RefMut)
    pc,         \* "live" | "dropping" | "dropped" | "panicked"; a run ends at
                \* a panic
    lastOp,     \* the last call that returned or panicked, and its result
    abs,        \* history: the abstract sequence the calls describe
    lifo,       \* history: values pushed at the front and not yet popped,
                \* oldest first, while only push_front/pop_front were called
    frontOnly,  \* history: only push_front/pop_front were called so far
    viewOf,     \* history: the end ("front" | "back") the held RefMut came from
    leaks,      \* history: how many views were forgotten
    dropAt      \* history: when drop began, the number of elements (len) and
                \* of nodes already released (freed)

dvars == <<head, tail, nodes, held, pc, lastOp, abs, lifo, frontOnly, viewOf,
           leaks, dropAt>>

VARIABLES
    plist,      \* persistent lists: slot -> [live, head]; a live slot is a
                \* List<T> value the caller holds
    pnode,      \* persistent heap: id -> Node fields and Rc strong count
    iter,       \* the Iter<'a, T> the caller holds: the list it borrows, its
                \* `next`, the elements it yielded, whether it returned None
    plast,      \* the last head(), next() or tail() call and what it returned
                \* (for tail: the slot of the list it returned)
    pabs        \* history: slot -> the abstract sequence its making describes

pvars == <<plist, pnode, iter, plast, pabs>>

vars == <<dvars, pvars>>

\* ------------------------------------------------------------ deque heap

\* struct Node<T> { elem, next, prev } inside Rc<RefCell<..>>:
\* strong is the Rc strong count, borrow the RefCell flag (n > 0: n shared
\* borrows, -1: one mutable borrow), freed the number of times the cell was
\* released.
FreeCell == [alloc |-> FALSE, elem |-> None, next |-> None, prev |-> None,
             strong |-> 0, borrow |-> 0, freed |-> 0]

Unallocated(ns) == {n \in NodeIds : ~ns[n].alloc}

\* The id the next allocation gets.
NextId(ns) == CHOOSE n \in Unallocated(ns) : \A m \in Unallocated(ns) : n <= m

\* Node::new(elem): Rc::new(RefCell::new(Node {elem, next: None, prev: None})).
\* The returned Rc is the first owner.
Node_new(ns, elem) ==
    [ns EXCEPT ![NextId(ns)] =
        [alloc |-> TRUE, elem |-> elem, next |-> None, prev |-> None,
         strong |-> 1, borrow |-> 0, freed |-> 0]]

\* Rc::clone of a link.
Rc_clone(ns, l) == IF l = None THEN ns ELSE [ns EXCEPT ![l].strong = @ + 1]

\* Dropping a Link<T>: the strong count goes down by one; at zero the node is
\* released and its own fields are dropped in declaration order (next, prev).
RECURSIVE Rc_drop(_, _)
Rc_drop(ns, l) ==
    IF l = None THEN ns
    ELSE IF ns[l].strong > 1 THEN [ns EXCEPT ![l].strong = @ - 1]
    ELSE LET cleared == [ns EXCEPT ![l].strong = 0, ![l].freed = @ + 1, ![l].elem = None,
                                   ![l].next = None, ![l].prev = None]
         IN  Rc_drop(Rc_drop(cleared, ns[l].next), ns[l].prev)

\* Nodes that are allocated and not released, and nodes that were released.
Alive(ns) == {n \in NodeIds : ns[n].alloc /\ ns[n].strong > 0}
Released(ns) == {n \in NodeIds : ns[n].freed > 0}

\* RefCell::borrow_mut succeeds only on an unborrowed cell, RefCell::borrow
\* only on a cell that is not mutably borrowed; otherwise they panic.
CanBorrowMut(ns, n) == ns[n].borrow = 0
CanBorrow(ns, n) == ns[n].borrow >= 0

\* The list as the operations see it, and what an operation leaves behind:
\* the list, the returned value and whether the call panicked.
D == [head |-> head, tail |-> tail, nodes |-> nodes]
Res(h, t, ns, r, p) == [head |-> h, tail |-> t, nodes |-> ns, ret |-> r, panic |-> p]

\* ------------------------------------------------------- deque operations
\* Each operation maps the list D to Res(head, tail, nodes, ret, panic).  A
\* panicking call unwinds: its locals (the Rcs and RefMut temporaries it
\* holds) are dropped, and what it had already written to the list stays.

\* A push_front that leaves the tail alone when the list is empty.
push_front_empty_no_tail(d, ns0, new_head) ==
    Res(new_head, d.tail, ns0, None, FALSE)

\* List::push_front, the arm for the empty list: tail and head both get the
\* new node.
push_front_empty(d, ns0, new_head) ==
    LET ns1 == Rc_drop(Rc_clone(ns0, new_head), d.tail)  \* self.tail = Some(new_head.clone())
    IN  Res(new_head, new_head, ns1, None, FALSE)        \* self.head = Some(new_head)

\* A push_front that does not set the old head's prev.
push_front_no_prev(d, elem) ==
    LET ns0 == Node_new(d.nodes, elem)
        new_head == NextId(d.nodes)
        old_head == d.head
    IN  IF old_head # None
        THEN Res(new_head, d.tail, [ns0 EXCEPT ![new_head].next = old_head], None, FALSE)
        ELSE push_front_empty(d, ns0, new_head)

\* List::push_front
push_front(d, elem) ==
    LET ns0 == Node_new(d.nodes, elem)
        new_head == NextId(d.nodes)
        old_head == d.head                       \* self.head.take()
    IN  IF old_head # None
        THEN LET ns1 == Rc_clone(ns0, new_head)  \* new_head.clone()
             IN  IF ~CanBorrowMut(ns1, old_head) \* old_head.borrow_mut()
                 THEN Res(None, d.tail,
                          Rc_drop(Rc_drop(Rc_drop(ns1, new_head), new_head), old_head),
                          None, TRUE)
                 ELSE LET ns2 == Rc_drop([ns1 EXCEPT ![old_head].prev = new_head],
                                         ns1[old_head].prev)
                      IN  IF ~CanBorrowMut(ns2, new_head)   \* new_head.borrow_mut()
                          THEN Res(None, d.tail,
                                   Rc_drop(Rc_drop(ns2, new_head), old_head), None, TRUE)
                          ELSE LET ns3 == Rc_drop([ns2 EXCEPT ![new_head].next = old_head],
                                                  ns2[new_head].next)
                               IN  Res(new_head, d.tail, ns3, None, FALSE)
        ELSE push_front_empty(d, ns0, new_head)

\* A push_back that pushes at the wrong end.
push_back_at_front(d, elem) == push_front(d, elem)

\* A push_back that leaves the head alone when the list is empty.
push_back_empty_no_head(d, ns0, new_tail) ==
    Res(d.head, new_tail, ns0, None, FALSE)

\* List::push_back, the arm for the empty list: head and tail both get the
\* new node.
push_back_empty(d, ns0, new_tail) ==
    LET ns1 == Rc_drop(Rc_clone(ns0, new_tail), d.head)  \* self.head = Some(new_tail.clone())
    IN  Res(new_tail, new_tail, ns1, None, FALSE)        \* self.tail = Some(new_tail)

\* A push_back copied from push_front with the link fields not swapped: the
\* old tail's prev and the new tail's next are written.
push_back_links_as_front(d, elem) ==
    LET ns0 == Node_new(d.nodes, elem)
        new_tail == NextId(d.nodes)
        old_tail == d.tail
    IN  IF old_tail # None
        THEN LET ns1 == Rc_clone(ns0, new_tail)
             IN  IF ~CanBorrowMut(ns1, old_tail)
                 THEN Res(d.head, None,
                          Rc_drop(Rc_drop(Rc_drop(ns1, new_tail), new_tail), old_tail),
                          None, TRUE)
                 ELSE LET ns2 == Rc_drop([ns1 EXCEPT ![old_tail].prev = new_tail],
                                         ns1[old_tail].prev)
                      IN  IF ~CanBorrowMut(ns2, new_tail)
                          THEN Res(d.head, None,
                                   Rc_drop(Rc_drop(ns2, new_tail), old_tail), None, TRUE)
                          ELSE LET ns3 == Rc_drop([ns2 EXCEPT ![new_tail].next = old_tail],
                                                  ns2[new_tail].next)
                               IN  Res(d.head, new_tail, ns3, None, FALSE)
        ELSE push_back_empty(d, ns0, new_tail)

\* List::push_back
push_back(d, elem) ==
    LET ns0 == Node_new(d.nodes, elem)
        new_tail == NextId(d.nodes)
        old_tail == d.tail                       \* self.tail.take()
    IN  IF old_tail # None
        THEN LET ns1 == Rc_clone(ns0, new_tail)  \* new_tail.clone()
             IN  IF ~CanBorrowMut(ns1, old_tail) \* old_tail.borrow_mut()
                 THEN Res(d.head, None,
                          Rc_drop(Rc_drop(Rc_drop(ns1, new_tail), new_tail), old_tail),
                          None, TRUE)
                 ELSE LET ns2 == Rc_drop([ns1 EXCEPT ![old_tail].next = new_tail],
                                         ns1[old_tail].next)
                      IN  IF ~CanBorrowMut(ns2, new_tail)   \* new_tail.borrow_mut()
                          THEN Res(d.head, None,
                                   Rc_drop(Rc_drop(ns2, new_tail), old_tail), None, TRUE)
                          ELSE LET ns3 == Rc_drop([ns2 EXCEPT ![new_tail].prev = old_tail],
                                                  ns2[new_tail].prev)
                               IN  Res(d.head, new_tail, ns3, None, FALSE)
        ELSE push_back_empty(d, ns0, new_tail)

\* A pop_back whose Some arm borrows the old tail again, while the borrow
\* of the match scrutinee is still held, instead of the new tail.
pop_back_reborrow(d) ==
    IF d.tail = None THEN Res(d.head, None, d.nodes, None, FALSE)
    ELSE
    LET old_tail == d.tail
        ns0 == d.nodes
    IN  IF ~CanBorrowMut(ns0, old_tail)
        THEN Res(d.head, None, Rc_drop(ns0, old_tail), None, TRUE)
        ELSE
        LET new_tail == ns0[old_tail].prev
            ns1 == [ns0 EXCEPT ![old_tail].borrow = -1, ![old_tail].prev = None]
        IN  IF new_tail # None /\ ~CanBorrowMut(ns1, old_tail)
            THEN Res(d.head, None,
                     Rc_drop(Rc_drop([ns1 EXCEPT ![old_tail].borrow = 0], new_tail),
                             old_tail),
                     None, TRUE)
            ELSE
            LET ns2 == Rc_drop(ns1, d.head)
                ns3 == [ns2 EXCEPT ![old_tail].borrow = 0]
            IN  IF ns3[old_tail].strong = 1
                THEN Res(None, None, Rc_drop(ns3, old_tail), ns3[old_tail].elem, FALSE)
                ELSE Res(None, None, Rc_drop(ns3, old_tail), None, TRUE)

\* A pop_back that takes the head whether or not the list becomes empty.
pop_back_take_head(d) ==
    IF d.tail = None THEN Res(d.head, None, d.nodes, None, FALSE)
    ELSE
    LET old_tail == d.tail
        ns0 == d.nodes
    IN  IF ~CanBorrowMut(ns0, old_tail)
        THEN Res(d.head, None, Rc_drop(ns0, old_tail), None, TRUE)
        ELSE
        LET new_tail == ns0[old_tail].prev
            ns1 == [ns0 EXCEPT ![old_tail].borrow = -1, ![old_tail].prev = None]
        IN  IF new_tail # None /\ ~CanBorrowMut(ns1, new_tail)
            THEN Res(d.head, None,
                     Rc_drop(Rc_drop([ns1 EXCEPT ![old_tail].borrow = 0], new_tail),
                             old_tail),
                     None, TRUE)
            ELSE
            LET ns2 == IF new_tail # None
                       THEN Rc_drop(Rc_drop([ns1 EXCEPT ![new_tail].next = None],
                                            ns1[new_tail].next), d.head)
                       ELSE Rc_drop(ns1, d.head)
                ns3 == [ns2 EXCEPT ![old_tail].borrow = 0]
            IN  IF ns3[old_tail].strong = 1
                THEN Res(None, new_tail, Rc_drop(ns3, old_tail), ns3[old_tail].elem, FALSE)
                ELSE Res(None, new_tail, Rc_drop(ns3, old_tail), None, TRUE)

\* List::pop_back
pop_back(d) ==
    IF d.tail = None THEN Res(d.head, None, d.nodes, None, FALSE)
    ELSE
    LET old_tail == d.tail                       \* self.tail.take()
        ns0 == d.nodes
    IN  IF ~CanBorrowMut(ns0, old_tail)          \* old_tail.borrow_mut()
        THEN Res(d.head, None, Rc_drop(ns0, old_tail), None, TRUE)
        ELSE
        LET new_tail == ns0[old_tail].prev       \* .prev.take(), RefMut kept
            ns1 == [ns0 EXCEPT ![old_tail].borrow = -1, ![old_tail].prev = None]
        IN  IF new_tail # None /\ ~CanBorrowMut(ns1, new_tail)  \* new_tail.borrow_mut()
            THEN Res(d.head, None,
                     Rc_drop(Rc_drop([ns1 EXCEPT ![old_tail].borrow = 0], new_tail),
                             old_tail),
                     None, TRUE)
            ELSE
            LET ns2 == IF new_tail # None
                       THEN Rc_drop([ns1 EXCEPT ![new_tail].next = None],
                                    ns1[new_tail].next)      \* .next.take();
                       ELSE Rc_drop(ns1, d.head)            \* self.head.take();
                t2 == new_tail                               \* self.tail = Some(new_tail)
                h2 == IF new_tail # None THEN d.head ELSE None
                ns3 == [ns2 EXCEPT ![old_tail].borrow = 0]
            IN  IF ns3[old_tail].strong = 1      \* Rc::try_unwrap(old_tail)
                THEN Res(h2, t2, Rc_drop(ns3, old_tail), ns3[old_tail].elem, FALSE)
                ELSE Res(h2, t2, Rc_drop(ns3, old_tail), None, TRUE)   \* .ok().unwrap()

\* A pop_front that leaves the new head's prev as it was.
pop_front_keep_prev(d) ==
    IF d.head = None THEN Res(None, d.tail, d.nodes, None, FALSE)
    ELSE
    LET old_head == d.head
        ns0 == d.nodes
    IN  IF ~CanBorrowMut(ns0, old_head)
        THEN Res(None, d.tail, Rc_drop(ns0, old_head), None, TRUE)
        ELSE
        LET new_head == ns0[old_head].next
            ns1 == [ns0 EXCEPT ![old_head].borrow = -1, ![old_head].next = None]
        IN  IF new_head # None /\ ~CanBorrowMut(ns1, new_head)
            THEN Res(None, d.tail,
                     Rc_drop(Rc_drop([ns1 EXCEPT ![old_head].borrow = 0], new_head),
                             old_head),
                     None, TRUE)
            ELSE
            LET ns2 == IF new_head # None THEN ns1 ELSE Rc_drop(ns1, d.tail)
                h2 == new_head
                t2 == IF new_head # None THEN d.tail ELSE None
                ns3 == [ns2 EXCEPT ![old_head].borrow = 0]
            IN  IF ns3[old_head].strong = 1
                THEN Res(h2, t2, Rc_drop(ns3, old_head), ns3[old_head].elem, FALSE)
                ELSE Res(h2, t2, Rc_drop(ns3, old_head), None, TRUE)

\* A pop_front that pops at the wrong end.
pop_front_at_back(d) == pop_back(d)

\* List::pop_front
pop_front(d) ==
    IF d.head = None THEN Res(None, d.tail, d.nodes, None, FALSE)
    ELSE
    LET old_head == d.head                       \* self.head.take()
        ns0 == d.nodes
    IN  IF ~CanBorrowMut(ns0, old_head)          \* old_head.borrow_mut()
        THEN Res(None, d.tail, Rc_drop(ns0, old_head), None, TRUE)
        ELSE
        LET new_head == ns0[old_head].next       \* .next.take(), RefMut kept
            ns1 == [ns0 EXCEPT ![old_head].borrow = -1, ![old_head].next = None]
        IN  IF new_head # None /\ ~CanBorrowMut(ns1, new_head)  \* new_head.borrow_mut()
            THEN Res(None, d.tail,
                     Rc_drop(Rc_drop([ns1 EXCEPT ![old_head].borrow = 0], new_head),
                             old_head),
                     None, TRUE)
            ELSE
            LET \* the match arm, then the end of the match releases the RefMut
                ns2 == IF new_head # None
                       THEN Rc_drop([ns1 EXCEPT ![new_head].prev = None],
                                    ns1[new_head].prev)      \* .prev.take();
                       ELSE Rc_drop(ns1, d.tail)            \* self.tail.take();
                h2 == new_head                               \* self.head = Some(new_head)
                t2 == IF new_head # None THEN d.tail ELSE None
                ns3 == [ns2 EXCEPT ![old_head].borrow = 0]
            IN  IF ns3[old_head].strong = 1      \* Rc::try_unwrap(old_head)
                THEN Res(h2, t2, Rc_drop(ns3, old_head), ns3[old_head].elem, FALSE)
                ELSE Res(h2, t2, Rc_drop(ns3, old_head), None, TRUE)   \* .ok().unwrap()

\* List::peek_front: node.borrow() adds a shared borrow; ret is the element
\* the returned Ref shows.
peek_front(d) ==
    IF d.head = None THEN Res(d.head, d.tail, d.nodes, None, FALSE)
    ELSE IF ~CanBorrow(d.nodes, d.head) THEN Res(d.head, d.tail, d.nodes, None, TRUE)
    ELSE Res(d.head, d.tail, [d.nodes EXCEPT ![d.head].borrow = @ + 1],
             d.nodes[d.head].elem, FALSE)

\* A peek_back that takes the tail out of its slot instead of borrowing it.
peek_back_take(d) ==
    IF d.tail = None THEN Res(d.head, d.tail, d.nodes, None, FALSE)
    ELSE IF ~CanBorrow(d.nodes, d.tail) THEN Res(d.head, d.tail, d.nodes, None, TRUE)
    ELSE Res(d.head, None, [d.nodes EXCEPT ![d.tail].borrow = @ + 1],
             d.nodes[d.tail].elem, FALSE)

\* List::peek_back
peek_back(d) ==
    IF d.tail = None THEN Res(d.head, d.tail, d.nodes, None, FALSE)
    ELSE IF ~CanBorrow(d.nodes, d.tail) THEN Res(d.head, d.tail, d.nodes, None, TRUE)
    ELSE Res(d.head, d.tail, [d.nodes EXCEPT ![d.tail].borrow = @ + 1],
             d.nodes[d.tail].elem, FALSE)

\* A peek_back_mut that unwraps the tail instead of mapping over it.
peek_back_mut_unwrap(d) ==
    IF d.tail = None THEN Res(d.head, d.tail, d.nodes, None, TRUE)
    ELSE IF ~CanBorrowMut(d.nodes, d.tail) THEN Res(d.head, d.tail, d.nodes, None, TRUE)
    ELSE Res(d.head, d.tail, [d.nodes EXCEPT ![d.tail].borrow = -1],
             d.nodes[d.tail].elem, FALSE)

\* List::peek_back_mut: node.borrow_mut() takes the mutable borrow.
peek_back_mut(d) ==
    IF d.tail = None THEN Res(d.head, d.tail, d.nodes, None, FALSE)
    ELSE IF ~CanBorrowMut(d.nodes, d.tail) THEN Res(d.head, d.tail, d.nodes, None, TRUE)
    ELSE Res(d.head, d.tail, [d.nodes EXCEPT ![d.tail].borrow = -1],
             d.nodes[d.tail].elem, FALSE)

\* A peek_front_mut that hands out the element without asking the RefCell.
peek_front_mut_unchecked(d) ==
    IF d.head = None THEN Res(d.head, d.tail, d.nodes, None, FALSE)
    ELSE Res(d.head, d.tail, [d.nodes EXCEPT ![d.head].borrow = -1],
             d.nodes[d.head].elem, FALSE)

\* A peek_front_mut that looks at the tail.
peek_front_mut_at_back(d) == peek_back_mut(d)

\* List::peek_front_mut
peek_front_mut(d) ==
    IF d.head = None THEN Res(d.head, d.tail, d.nodes, None, FALSE)
    ELSE IF ~CanBorrowMut(d.nodes, d.head) THEN Res(d.head, d.tail, d.nodes, None, TRUE)
    ELSE Res(d.head, d.tail, [d.nodes EXCEPT ![d.head].borrow = -1],
             d.nodes[d.head].elem, FALSE)

\* Dropping a Ref / a RefMut gives the borrow back to the RefCell.
Ref_drop(ns, n) == [ns EXCEPT ![n].borrow = @ - 1]
RefMut_drop(ns, n) == [ns EXCEPT ![n].borrow = 0]

\* A drop left to the compiler: no loop, the fields head and tail are dropped.
drop_step_fields_only(d) ==
    Res(None, None, Rc_drop(Rc_drop(d.nodes, d.head), d.tail), None, FALSE)

\* impl Drop for List: one iteration of `while self.pop_front().is_some() {}`.
\* The iteration that gets None ends the loop, and the fields head and tail
\* are then dropped.
drop_step(d) ==
    LET r == pop_front(d)
    IN  IF r.panic \/ r.ret # None THEN r
        ELSE Res(None, None, Rc_drop(Rc_drop(r.nodes, r.head), r.tail), None, FALSE)

\* -------------------------------------------------------- persistent list

\* struct Node<T> { elem, next } inside Rc<..>.
PFreeCell == [alloc |-> FALSE, elem |-> None, next |-> None, strong |-> 0, freed |-> 0]

NoIter == [list |-> None, next |-> None, out |-> <<>>, ended |-> FALSE]
NoList == [live |-> FALSE, head |-> None]
NoCall == [op |-> "none", list |-> None, ret |-> None]

PUnallocated(pn) == {n \in PNodeIds : ~pn[n].alloc}
NextPId(pn) == CHOOSE n \in PUnallocated(pn) : \A m \in PUnallocated(pn) : n <= m

PRes(h, pn) == [head |-> h, nodes |-> pn]

\* List::new
new == PRes(None, [n \in PNodeIds |-> PFreeCell])

\* An append that writes the element into the receiver's first node.
append_in_place(h, pn, elem) ==
    IF h = None
    THEN PRes(NextPId(pn), [pn EXCEPT ![NextPId(pn)] =
                               [alloc |-> TRUE, elem |-> elem, next |-> None,
                                strong |-> 1, freed |-> 0]])
    ELSE PRes(h, [pn EXCEPT ![h].elem = elem, ![h].strong = @ + 1])

\* List::append: a new node in front of a clone of self.head.
append(h, pn, elem) ==
    LET id == NextPId(pn)
        pn1 == IF h = None THEN pn ELSE [pn EXCEPT ![h].strong = @ + 1]  \* self.head.clone()
    IN  PRes(id, [pn1 EXCEPT ![id] = [alloc |-> TRUE, elem |-> elem, next |-> h,
                                      strong |-> 1, freed |-> 0]])

\* A tail that clones the head itself.
tail_of_head(h, pn) ==
    PRes(h, IF h = None THEN pn ELSE [pn EXCEPT ![h].strong = @ + 1])

\* A tail that falls back to the list itself when there is no second node.
tail_or_self(h, pn) ==
    IF h = None THEN PRes(None, pn)
    ELSE LET nx == IF pn[h].next = None THEN h ELSE pn[h].next
         IN  PRes(nx, [pn EXCEPT ![nx].strong = @ + 1])

\* List::tail: a clone of the first node's next, if there is a first node.
tail_of(h, pn) ==
    IF h = None THEN PRes(None, pn)
    ELSE LET nx == pn[h].next
         IN  PRes(nx, IF nx = None THEN pn ELSE [pn EXCEPT ![nx].strong = @ + 1])

\* List::head
head_of(h, pn) == IF h = None THEN None ELSE pn[h].elem

\* List::iter
iter_new(l, h) == [list |-> l, next |-> h, out |-> <<>>, ended |-> FALSE]

\* A next that moves on before it reads the element.
iter_next_late(it, pn) ==
    IF it.next = None THEN [ret |-> None, it |-> [it EXCEPT !.ended = TRUE]]
    ELSE LET nx == pn[it.next].next
             e == IF nx = None THEN None ELSE pn[nx].elem
         IN  [ret |-> e, it |-> [it EXCEPT !.next = nx, !.out = Append(@, e)]]

\* Iterator::next for Iter: the result and the iterator afterwards.
iter_next(it, pn) ==
    IF it.next = None THEN [ret |-> None, it |-> [it EXCEPT !.ended = TRUE]]
    ELSE [ret |-> pn[it.next].elem,
          it |-> [it EXCEPT !.next = pn[it.next].next,
                            !.out = Append(@, pn[it.next].elem)]]

\* A drop that, at the first node with another owner, stops without giving
\* its own Rc back.
RECURSIVE list_drop_keep_shared(_, _)
list_drop_keep_shared(h, pn) ==
    IF h = None THEN pn
    ELSE IF pn[h].strong = 1
         THEN list_drop_keep_shared(pn[h].next,
                        [pn EXCEPT ![h].strong = 0, ![h].freed = @ + 1,
                                   ![h].elem = None, ![h].next = None])
         ELSE pn

\* impl Drop for List: walk from the head; a node this list owned alone is
\* unwrapped, its next taken and the node released; at the first node that
\* has another owner the Rc is given back (the count goes down) and the walk
\* stops.
RECURSIVE list_drop(_, _)
list_drop(h, pn) ==
    IF h = None THEN pn
    ELSE IF pn[h].strong = 1
         THEN list_drop(pn[h].next,
                        [pn EXCEPT ![h].strong = 0, ![h].freed = @ + 1,
                                   ![h].elem = None, ![h].next = None])
         ELSE [pn EXCEPT ![h].strong = @ - 1]

\* ------------------------------------------------- persistent list actions
\* A List value stays in its slot from the call that made it to its drop.

FreeSlots == {l \in ListIds : ~plist[l].live}
NextSlot == CHOOSE l \in FreeSlots : \A m \in FreeSlots : l <= m
Live(l) == plist[l].live

Make(r, contents, call) ==
    /\ plist' = [plist EXCEPT ![NextSlot] = [live |-> TRUE, head |-> r.head]]
    /\ pnode' = r.nodes
    /\ pabs' = [pabs EXCEPT ![NextSlot] = contents]
    /\ plast' = call

PNew ==
    /\ FreeSlots # {}
    /\ Make(PRes(new.head, pnode), <<>>, NoCall)
    /\ UNCHANGED <<iter, dvars>>

\* The code never inspects an element (T is unconstrained), so the caller
\* appends 1, 2, 3, ... as the tests do: every element tells its append.
NextElem == NextPId(pnode)

PAppend(l, e) ==
    /\ Live(l) /\ FreeSlots # {} /\ PUnallocated(pnode) # {}
    /\ Make(append(plist[l].head, pnode, e), <<e>> \o pabs[l], NoCall)
    /\ UNCHANGED <<iter, dvars>>

PTail(l) ==
    /\ Live(l) /\ FreeSlots # {}
    /\ Make(tail_of(plist[l].head, pnode), IF pabs[l] = <<>> THEN <<>> ELSE Tail(pabs[l]),
            [op |-> "tail", list |-> l, ret |-> NextSlot])
    /\ UNCHANGED <<iter, dvars>>

\* head() changes nothing but the record of the last call.  It is called
\* while no iterator is alive: the runs that call it during an iteration
\* differ from these in that record only.
PHead(l) ==
    /\ Live(l) /\ iter.list = None
    /\ plast' = [op |-> "head", list |-> l, ret |-> head_of(plist[l].head, pnode)]
    /\ UNCHANGED <<plist, pnode, iter, pabs, dvars>>

\* A list the iterator borrows cannot be dropped.
PDrop(l) ==
    /\ Live(l) /\ iter.list # l
    /\ pnode' = list_drop(plist[l].head, pnode)
    /\ plist' = [plist EXCEPT ![l] = NoList]
    /\ plast' = NoCall
    /\ pabs' = [pabs EXCEPT ![l] = <<>>]
    /\ UNCHANGED <<iter, dvars>>

PIter(l) ==
    /\ Live(l) /\ iter.list = None
    /\ iter' = iter_new(l, plist[l].head)
    /\ plast' = NoCall
    /\ UNCHANGED <<plist, pnode, pabs, dvars>>

PIterNext ==
    /\ iter.list # None
    /\ LET r == iter_next(iter, pnode)
       IN  /\ iter' = r.it
           /\ plast' = [op |-> "next", list |-> iter.list, ret |-> r.ret]
    /\ UNCHANGED <<plist, pnode, pabs, dvars>>

\* The iterator goes out of scope.
PIterEnd ==
    /\ iter.list # None
    /\ iter' = NoIter
    /\ plast' = NoCall
    /\ UNCHANGED <<plist, pnode, pabs, dvars>>

\* ---------------------------------------------------------- deque actions
\* The caller obeys the borrow checker: a method taking &mut self is called
\* only while no view is held, a method taking &self only while no RefMut is
\* held.  A forgotten view (mem::forget) is no longer held, but its borrow
\* stays in the RefCell.

Call(op, arg, r) == [op |-> op, arg |-> arg, ret |-> r.ret, panic |-> r.panic]

Commit(op, arg, r) ==
    /\ head' = r.head
    /\ tail' = r.tail
    /\ nodes' = r.nodes
    /\ pc' = IF r.panic THEN "panicked" ELSE pc
    /\ lastOp' = Call(op, arg, r)

NoViews == \A n \in NodeIds : held[n] = 0
NoRefMut == \A n \in NodeIds : held[n] >= 0

PushFront(e) ==
    /\ pc = "live" /\ NoViews /\ Unallocated(nodes) # {}
    /\ LET r == push_front(D, e)
       IN  /\ Commit("push_front", e, r)
           /\ abs' = IF r.panic THEN abs ELSE <<e>> \o abs
           /\ lifo' = IF frontOnly /\ ~r.panic THEN Append(lifo, e) ELSE lifo
    /\ UNCHANGED <<held, frontOnly, viewOf, leaks, dropAt, pvars>>

PopFront ==
    /\ pc = "live" /\ NoViews
    /\ LET r == pop_front(D)
       IN  /\ Commit("pop_front", None, r)
           /\ abs' = IF r.panic \/ abs = <<>> THEN abs ELSE Tail(abs)
           /\ lifo' = IF r.panic \/ lifo = <<>> THEN lifo
                      ELSE SubSeq(lifo, 1, Len(lifo) - 1)
    /\ UNCHANGED <<held, frontOnly, viewOf, leaks, dropAt, pvars>>

PushBack(e) ==
    /\ pc = "live" /\ NoViews /\ Unallocated(nodes) # {}
    /\ LET r == push_back(D, e)
       IN  /\ Commit("push_back", e, r)
           /\ abs' = IF r.panic THEN abs ELSE Append(abs, e)
    /\ frontOnly' = FALSE /\ lifo' = <<>>
    /\ UNCHANGED <<held, viewOf, leaks, dropAt, pvars>>

PopBack ==
    /\ pc = "live" /\ NoViews
    /\ LET r == pop_back(D)
       IN  /\ Commit("pop_back", None, r)
           /\ abs' = IF r.panic \/ abs = <<>> THEN abs
                     ELSE SubSeq(abs, 1, Len(abs) - 1)
    /\ frontOnly' = FALSE /\ lifo' = <<>>
    /\ UNCHANGED <<held, viewOf, leaks, dropAt, pvars>>

\* The view a peek returned is held by the caller.
Granted(r, n) == n # None /\ ~r.panic

\* The RefMut a peek_*_mut returned is a view of the node whose RefCell the
\* call borrowed mutably.
GrantedMut(d, r) ==
    IF r.panic THEN {}
    ELSE {n \in NodeIds : r.nodes[n].borrow = -1 /\ d.nodes[n].borrow # -1}

PeekFront ==
    /\ pc = "live" /\ NoRefMut
    /\ head # None => nodes[head].borrow < MaxBorrow
    /\ LET r == peek_front(D)
       IN  /\ Commit("peek_front", None, r)
           /\ held' = IF Granted(r, head) THEN [held EXCEPT ![head] = @ + 1] ELSE held
    /\ frontOnly' = FALSE /\ lifo' = <<>>
    /\ UNCHANGED <<abs, viewOf, leaks, dropAt, pvars>>

PeekBack ==
    /\ pc = "live" /\ NoRefMut
    /\ tail # None => nodes[tail].borrow < MaxBorrow
    /\ LET r == peek_back(D)
       IN  /\ Commit("peek_back", None, r)
           /\ held' = IF Granted(r, tail) THEN [held EXCEPT ![tail] = @ + 1] ELSE held
    /\ frontOnly' = FALSE /\ lifo' = <<>>
    /\ UNCHANGED <<abs, viewOf, leaks, dropAt, pvars>>

PeekFrontMut ==
    /\ pc = "live" /\ NoViews
    /\ LET r == peek_front_mut(D)
       IN  /\ Commit("peek_front_mut", None, r)
           /\ held' = [n \in NodeIds |-> IF n \in GrantedMut(D, r) THEN -1 ELSE held[n]]
           /\ viewOf' = IF GrantedMut(D, r) # {} THEN "front" ELSE viewOf
    /\ frontOnly' = FALSE /\ lifo' = <<>>
    /\ UNCHANGED <<abs, leaks, dropAt, pvars>>

PeekBackMut ==
    /\ pc = "live" /\ NoViews
    /\ LET r == peek_back_mut(D)
       IN  /\ Commit("peek_back_mut", None, r)
           /\ held' = [n \in NodeIds |-> IF n \in GrantedMut(D, r) THEN -1 ELSE held[n]]
           /\ viewOf' = IF GrantedMut(D, r) # {} THEN "back" ELSE viewOf
    /\ frontOnly' = FALSE /\ lifo' = <<>>
    /\ UNCHANGED <<abs, leaks, dropAt, pvars>>

\* `*view = v` through the held RefMut.
WriteView(n, v) ==
    /\ pc = "live" /\ held[n] = -1 /\ nodes[n].elem # v
    /\ nodes' = [nodes EXCEPT ![n].elem = v]
    /\ abs' = IF viewOf = "front" THEN [abs EXCEPT ![1] = v]
              ELSE [abs EXCEPT ![Len(abs)] = v]
    /\ lastOp' = [op |-> "write", arg |-> v, ret |-> None, panic |-> FALSE]
    /\ UNCHANGED <<head, tail, held, pc, lifo, frontOnly, viewOf, leaks, dropAt, pvars>>

\* A held view goes out of scope.
ReleaseView(n) ==
    /\ pc = "live" /\ held[n] # 0
    /\ nodes' = IF held[n] = -1 THEN RefMut_drop(nodes, n) ELSE Ref_drop(nodes, n)
    /\ held' = [held EXCEPT ![n] = IF @ = -1 THEN 0 ELSE @ - 1]
    /\ viewOf' = IF held[n] = -1 THEN "none" ELSE viewOf
    /\ lastOp' = [op |-> "release", arg |-> None, ret |-> None, panic |-> FALSE]
    /\ UNCHANGED <<head, tail, pc, abs, lifo, frontOnly, leaks, dropAt, pvars>>

\* mem::forget(view): the view is gone, its borrow is never given back.
ForgetView(n) ==
    /\ pc = "live" /\ held[n] # 0 /\ leaks < MaxLeaks
    /\ held' = [held EXCEPT ![n] = IF @ = -1 THEN 0 ELSE @ - 1]
    /\ viewOf' = IF held[n] = -1 THEN "none" ELSE viewOf
    /\ leaks' = leaks + 1
    /\ lastOp' = [op |-> "forget", arg |-> None, ret |-> None, panic |-> FALSE]
    /\ UNCHANGED <<head, tail, nodes, pc, abs, lifo, frontOnly, dropAt, pvars>>

\* The list goes out of scope: drop(&mut self) begins.
DropList ==
    /\ pc = "live" /\ NoViews
    /\ pc' = "dropping"
    /\ dropAt' = [len |-> Len(abs), freed |-> Cardinality(Released(nodes))]
    /\ lastOp' = [op |-> "drop", arg |-> None, ret |-> None, panic |-> FALSE]
    /\ frontOnly' = FALSE /\ lifo' = <<>>
    /\ UNCHANGED <<head, tail, nodes, held, abs, viewOf, leaks, pvars>>

DropStep ==
    /\ pc = "dropping"
    /\ LET r == drop_step(D)
       IN  /\ head' = r.head /\ tail' = r.tail /\ nodes' = r.nodes
           /\ pc' = IF r.panic THEN "panicked"
                    ELSE IF r.ret = None THEN "dropped" ELSE "dropping"
           /\ lastOp' = Call("drop_step", None, r)
           /\ abs' = IF r.panic \/ abs = <<>> THEN abs ELSE Tail(abs)
    /\ UNCHANGED <<held, lifo, frontOnly, viewOf, leaks, dropAt, pvars>>

PInit ==
    /\ plist = [l \in ListIds |-> NoList]
    /\ pnode = [n \in PNodeIds |-> PFreeCell]
    /\ iter = NoIter
    /\ plast = NoCall
    /\ pabs = [l \in ListIds |-> <<>>]

DInit ==
    /\ head = None /\ tail = None
    /\ nodes = [n \in NodeIds |-> FreeCell]
    /\ held = [n \in NodeIds |-> 0]
    /\ pc = "live"
    /\ lastOp = [op |-> "new", arg |-> None, ret |-> None, panic |-> FALSE]
    /\ abs = <<>> /\ lifo = <<>> /\ frontOnly = TRUE
    /\ viewOf = "none" /\ leaks = 0 /\ dropAt = [len |-> 0, freed |-> 0]

\* One run exercises one of the two structures; the other stays as made.
Init == DInit /\ PInit

DNext ==
    \/ \E e \in Elems : PushFront(e)
    \/ \E e \in Elems : PushBack(e)
    \/ PopFront
    \/ PopBack
    \/ PeekFront
    \/ PeekBack
    \/ PeekFrontMut
    \/ PeekBackMut
    \/ \E n \in NodeIds, v \in Elems : WriteView(n, v)
    \/ \E n \in NodeIds : ReleaseView(n)
    \/ \E n \in NodeIds : ForgetView(n)
    \/ DropList
    \/ DropStep

Spec == Init /\ [][DNext]_vars

\* drop runs to its end once called: the loop is not interrupted.
FairSpec == Spec /\ WF_vars(DropStep)

PNext ==
    \/ PNew
    \/ \E l \in ListIds : PAppend(l, NextElem)
    \/ \E l \in ListIds : PTail(l)
    \/ \E l \in ListIds : PHead(l)
    \/ \E l \in ListIds : PDrop(l)
    \/ \E l \in ListIds : PIter(l)
    \/ PIterNext
    \/ PIterEnd

PSpec == Init /\ [][PNext]_vars

\* ===================================================== properties: deque

\* The owning references to node n: the list's slots and the link fields of
\* the nodes that are alive.
OwnerSlots(n) ==
    (IF head = n THEN {<<"head", None>>} ELSE {})
    \cup (IF tail = n THEN {<<"tail", None>>} ELSE {})
    \cup {<<"next", m>> : m \in {k \in Alive(nodes) : nodes[k].next = n}}
    \cup {<<"prev", m>> : m \in {k \in Alive(nodes) : nodes[k].prev = n}}

FrontOwners(n) == {o \in OwnerSlots(n) : o[1] \in {"head", "next"}}
BackOwners(n) == {o \in OwnerSlots(n) : o[1] \in {"tail", "prev"}}

\* C1: after every call that returned, each node in the list has exactly two
\* owning references: its predecessor's next or the head slot, and its
\* successor's prev or the tail slot; the Rc strong count is 2.
C1_TwoOwners ==
    pc # "panicked" =>
        \A n \in Alive(nodes) :
            /\ nodes[n].strong = 2
            /\ Cardinality(OwnerSlots(n)) = 2
            /\ Cardinality(FrontOwners(n)) = 1
            /\ Cardinality(BackOwners(n)) = 1
            /\ (head = n) = (~\E m \in Alive(nodes) : nodes[m].next = n)
            /\ (tail = n) = (~\E m \in Alive(nodes) : nodes[m].prev = n)

\* Three nodes after a push: an interior node, owned by its two neighbours,
\* between the two end nodes.
C1_Witness ==
    /\ pc = "live"
    /\ \E n \in Alive(nodes) : head # n /\ tail # n
    /\ lastOp.op \in {"push_front", "push_back"}

\* C2: while only push_front and pop_front are called, every pop_front on a
\* non-empty list returns the most recently pushed value not yet popped.
C2_Lifo ==
    [][(PopFront /\ frontOnly /\ lifo # <<>>) =>
          (~lastOp'.panic /\ lastOp'.ret = lifo[Len(lifo)])]_vars

\* A pop_front that returned a value while older values stay pushed.
C2_Witness ==
    /\ frontOnly /\ lifo # <<>>
    /\ lastOp.op = "pop_front" /\ lastOp.ret # None
    /\ Cardinality(Released(nodes)) >= 1

\* The elements met walking `next` from link h, at most `fuel` of them.
RECURSIVE Walk(_, _, _)
Walk(h, ns, fuel) ==
    IF h = None \/ fuel = 0 THEN <<>>
    ELSE <<ns[h].elem>> \o Walk(ns[h].next, ns, fuel - 1)

Contents(h, ns) == Walk(h, ns, MaxNodes + 1)

AnyPush == \E e \in Elems : PushFront(e) \/ PushBack(e)

\* C3: the deque refines the abstract sequence abs: a pop_front returns the
\* first element of abs, a pop_back its last one (None when abs is empty),
\* after every call the elements from head on are abs (push_front has
\* prepended, push_back appended, a pop removed what it returned), and no
\* push or pop panics unless a view was forgotten.
C3_Refines ==
    [][/\ (PopFront /\ ~lastOp'.panic) =>
              lastOp'.ret = IF abs = <<>> THEN None ELSE Head(abs)
       /\ (PopBack /\ ~lastOp'.panic) =>
              lastOp'.ret = IF abs = <<>> THEN None ELSE abs[Len(abs)]
       /\ (leaks = 0 /\ (PopFront \/ PopBack \/ AnyPush)) => ~lastOp'.panic
       /\ pc' # "panicked" => Contents(head', nodes') = abs']_vars

\* A pop_back that returned a value and left elements behind.
C3_Witness ==
    /\ lastOp.op = "pop_back" /\ lastOp.ret # None
    /\ abs # <<>> /\ Contents(head, nodes) = abs
    /\ pc = "live"

EmptyCall == PopFront \/ PopBack \/ PeekFront \/ PeekBack \/ PeekFrontMut \/ PeekBackMut

\* C4: on an empty deque each of pop_front, pop_back, peek_front, peek_back,
\* peek_front_mut and peek_back_mut returns None, does not panic, grants no
\* view and leaves the list empty and the heap as it was.
C4_EmptyReturnsNone ==
    [][(abs = <<>> /\ EmptyCall) =>
          /\ lastOp'.ret = None /\ ~lastOp'.panic /\ pc' = "live"
          /\ head' = None /\ tail' = None /\ abs' = <<>>
          /\ nodes' = nodes /\ held' = held]_vars

\* peek_back_mut returned None on a list drained back to empty.
C4_Witness ==
    /\ lastOp.op = "peek_back_mut" /\ lastOp.ret = None /\ ~lastOp.panic
    /\ abs = <<>> /\ Released(nodes) # {}

\* What a peek must leave alone: the slots, the links, the elements, the
\* owner counts.
PeekFrame ==
    /\ head' = head /\ tail' = tail
    /\ \A n \in NodeIds :
          /\ nodes'[n].elem = nodes[n].elem
          /\ nodes'[n].next = nodes[n].next
          /\ nodes'[n].prev = nodes[n].prev
          /\ nodes'[n].strong = nodes[n].strong
          /\ nodes'[n].alloc = nodes[n].alloc

\* The list right after the view a peek returned on node n is released.
ViewReleased(n) == [head |-> head', tail |-> tail', nodes |-> Ref_drop(nodes', n)]

\* C5: peek_front and peek_back change neither head, tail, a link nor an
\* element, and the value they show is the value the pop at that end,
\* called next, returns.
C5_PeekPure ==
    [][/\ PeekFront =>
             /\ PeekFrame
             /\ (head # None /\ ~lastOp'.panic) =>
                    LET r == pop_front(ViewReleased(head))
                    IN  ~r.panic => lastOp'.ret = r.ret
       /\ PeekBack =>
             /\ PeekFrame
             /\ (tail # None /\ ~lastOp'.panic) =>
                    LET r == pop_back(ViewReleased(tail))
                    IN  ~r.panic => lastOp'.ret = r.ret]_vars

\* peek_back showed the last element of a list whose ends differ.
C5_Witness ==
    /\ lastOp.op = "peek_back" /\ lastOp.ret # None
    /\ Len(abs) >= 2 /\ abs[1] # abs[Len(abs)]
    /\ lastOp.ret = abs[Len(abs)]

\* C6: dropping a list of N elements ends; when it has ended exactly the N
\* nodes that were alive have been released, no node was released twice, no
\* node has an owner left and both slots are empty.
C6_DropReleasesAll ==
    /\ [](pc = "dropped" =>
            /\ Alive(nodes) = {} /\ head = None /\ tail = None
            /\ \A n \in NodeIds : nodes[n].alloc =>
                   nodes[n].freed = 1 /\ nodes[n].strong = 0
            /\ Cardinality(Released(nodes)) - dropAt.freed = dropAt.len)
    /\ [](\A n \in NodeIds : nodes[n].freed <= 1)
    /\ ((pc = "dropping" /\ leaks = 0) ~> (pc = "dropped"))

\* A list of two or more elements was dropped after another node had been
\* popped.
C6_Witness ==
    /\ pc = "dropped" /\ dropAt.len >= 2 /\ dropAt.freed >= 1
    /\ Cardinality(Released(nodes)) = dropAt.len + dropAt.freed

\* What a refused call must leave alone.
Untouched ==
    /\ head' = head /\ tail' = tail /\ nodes' = nodes /\ held' = held /\ abs' = abs

\* C7: peek_front_mut / peek_back_mut on a node of which a view is still
\* alive (its RefCell is borrowed, shared or mutable) panics: no view is
\* granted and nothing is changed.
C7_MutViewFailsFast ==
    [][/\ (PeekFrontMut /\ head # None /\ nodes[head].borrow # 0) =>
              (lastOp'.panic /\ pc' = "panicked" /\ Untouched)
       /\ (PeekBackMut /\ tail # None /\ nodes[tail].borrow # 0) =>
              (lastOp'.panic /\ pc' = "panicked" /\ Untouched)]_vars

\* One element: a mutable view taken at the front is still alive, and
\* peek_back_mut on the same node panicked.
C7_Witness ==
    /\ head # None /\ head = tail
    /\ nodes[head].borrow = -1 /\ leaks = 1
    /\ lastOp.op = "peek_back_mut" /\ lastOp.panic /\ pc = "panicked"

\* A pop at the front (pop_front, or one iteration of drop) and at the back.
PopsFront == PopFront \/ DropStep

\* C11: a pop that removes node n takes away both owning references of n
\* (two before the call, none after), so that Rc::try_unwrap finds the
\* call's own Rc to be the only one: the node is released by this call and
\* its element returned.  The unwrap never panics: a pop panics only where a
\* borrow_mut is refused, on the removed node or on its neighbour.  The node
\* that becomes the new head or tail has as many owners as before.
C11_PopUnwraps ==
    [][\A n \in NodeIds :
          /\ (PopsFront /\ head = n) =>
                /\ lastOp'.panic =>
                      \/ nodes[n].borrow # 0
                      \/ nodes[n].next # None /\ nodes[nodes[n].next].borrow # 0
                /\ ~lastOp'.panic =>
                      /\ Cardinality(OwnerSlots(n)) = 2 /\ nodes[n].strong = 2
                      /\ OwnerSlots(n)' = {} /\ nodes'[n].strong = 0
                      /\ nodes[n].freed = 0 /\ nodes'[n].freed = 1
                      /\ lastOp'.ret = nodes[n].elem
                      /\ head' = nodes[n].next
                      /\ \A m \in NodeIds : m # n =>
                            nodes'[m].strong = nodes[m].strong
          /\ (PopBack /\ tail = n) =>
                /\ lastOp'.panic =>
                      \/ nodes[n].borrow # 0
                      \/ nodes[n].prev # None /\ nodes[nodes[n].prev].borrow # 0
                /\ ~lastOp'.panic =>
                      /\ Cardinality(OwnerSlots(n)) = 2 /\ nodes[n].strong = 2
                      /\ OwnerSlots(n)' = {} /\ nodes'[n].strong = 0
                      /\ nodes[n].freed = 0 /\ nodes'[n].freed = 1
                      /\ lastOp'.ret = nodes[n].elem
                      /\ tail' = nodes[n].prev
                      /\ \A m \in NodeIds : m # n =>
                            nodes'[m].strong = nodes[m].strong]_vars

\* pop_back removed a node while a borrow of another node was outstanding
\* and left a new tail with its two owners.
C11_Witness ==
    /\ lastOp.op = "pop_back" /\ lastOp.ret # None /\ pc = "live"
    /\ tail # None /\ nodes[tail].strong = 2 /\ leaks = 1
    /\ \E n \in Released(nodes) : nodes[n].freed = 1

RECURSIVE NextWalk(_, _, _)
NextWalk(h, ns, fuel) ==
    IF h = None \/ fuel = 0 THEN <<>>
    ELSE <<h>> \o NextWalk(ns[h].next, ns, fuel - 1)

RECURSIVE PrevWalk(_, _, _)
PrevWalk(t, ns, fuel) ==
    IF t = None \/ fuel = 0 THEN <<>>
    ELSE <<t>> \o PrevWalk(ns[t].prev, ns, fuel - 1)

Reverse(s) == [i \in 1..Len(s) |-> s[Len(s) + 1 - i]]

PushesFront == \E e \in Elems : PushFront(e)
PushesBack == \E e \in Elems : PushBack(e)

\* C14: an operation at one end leaves the other end's slot alone unless the
\* list goes to or from empty.  push_front on a non-empty list and pop_front
\* on two or more elements leave tail as it was (and put the new node, or the
\* old head's next, in head); push_back and pop_back likewise leave head; a
\* push onto the empty list sets head and tail to the new node; a pop of the
\* only element clears both.
C14_OtherEndFrame ==
    [][/\ (PushesFront /\ head # None) =>
              /\ tail' = tail
              /\ ~lastOp'.panic => (head' = NextId(nodes) /\ nodes'[head'].next = head)
       /\ (PushesBack /\ tail # None) =>
              /\ head' = head
              /\ ~lastOp'.panic => (tail' = NextId(nodes) /\ nodes'[tail'].prev = tail)
       /\ ((PushesFront \/ PushesBack) /\ head = None) =>
              /\ ~lastOp'.panic
              /\ head' = NextId(nodes) /\ tail' = NextId(nodes)
       /\ (PopsFront /\ Len(abs) >= 2) =>
              /\ tail' = tail
              /\ ~lastOp'.panic => (head' = nodes[head].next /\ head' # None)
       /\ (PopBack /\ Len(abs) >= 2) =>
              /\ head' = head
              /\ ~lastOp'.panic => (tail' = nodes[tail].prev /\ tail' # None)
       /\ ((PopsFront \/ PopBack) /\ Len(abs) = 1 /\ ~lastOp'.panic) =>
              (head' = None /\ tail' = None)]_vars

\* Two nodes were pushed and popped (as push_back 1, push_back 2, pop_front,
\* pop_back does it): the second pop, a pop_back of the only element left,
\* returned 2 and cleared both slots.
C14_Witness ==
    /\ lastOp.op = "pop_back" /\ lastOp.ret = 2 /\ pc = "live"
    /\ head = None /\ tail = None /\ abs = <<>>
    /\ Released(nodes) = {1, 2} /\ Alive(nodes) = {}

\* The mirror image of a list: head and tail exchanged, and next and prev
\* exchanged in every node; and the mirror image of what a call leaves.
MirrorNodes(ns) ==
    [n \in NodeIds |-> [ns[n] EXCEPT !.next = ns[n].prev, !.prev = ns[n].next]]

Mirror(d) == [head |-> d.tail, tail |-> d.head, nodes |-> MirrorNodes(d.nodes)]

MirrorRes(r) == Res(r.tail, r.head, MirrorNodes(r.nodes), r.ret, r.panic)

\* C15: the back operations are the mirror image of the front operations.
\* In every state in which a push or pop can be called, the back operation
\* on the mirror image of the list returns what the front operation returns
\* on the list and leaves the mirror image of what it leaves, and the other
\* way round; the mirror image holds the elements in reverse.  A run and its
\* mirrored run start from the empty list, which is its own mirror image, so
\* they stay mirror images call by call.
C15_BackMirrorsFront ==
    (pc = "live" /\ NoViews) =>
        /\ Contents(Mirror(D).head, Mirror(D).nodes) = Reverse(Contents(head, nodes))
        /\ pop_back(Mirror(D)) = MirrorRes(pop_front(D))
        /\ pop_front(Mirror(D)) = MirrorRes(pop_back(D))
        /\ Unallocated(nodes) # {} =>
               \A e \in Elems :
                   /\ push_back(Mirror(D), e) = MirrorRes(push_front(D, e))
                   /\ push_front(Mirror(D), e) = MirrorRes(push_back(D, e))

\* A list reached by pushes at both ends whose two ends hold different
\* elements: pop_front and pop_back return different values, and pop_back on
\* the mirror image returns what pop_front returns on the list.
C15_Witness ==
    /\ pc = "live" /\ NoViews /\ ~frontOnly /\ Len(abs) >= 2
    /\ lastOp.op = "push_back"
    /\ pop_front(D).ret # pop_back(D).ret
    /\ pop_back(Mirror(D)).ret = pop_front(D).ret
    /\ pop_back(Mirror(D)).ret = abs[1]
    /\ Unallocated(nodes) # {}

Writes == \E n \in NodeIds, v \in Elems : WriteView(n, v)
Releases == \E n \in NodeIds : ReleaseView(n)

\* What a write through a view and the release of a view must leave alone:
\* the slots, the links, the owner counts.
ViewFrame ==
    /\ head' = head /\ tail' = tail
    /\ \A m \in NodeIds :
          /\ nodes'[m].next = nodes[m].next /\ nodes'[m].prev = nodes[m].prev
          /\ nodes'[m].strong = nodes[m].strong /\ nodes'[m].alloc = nodes[m].alloc
          /\ nodes'[m].freed = nodes[m].freed

\* The list right after the RefMut on node n is released.
MutReleased(n) == [head |-> head', tail |-> tail', nodes |-> RefMut_drop(nodes', n)]

\* C16: a value written through the view peek_front_mut (peek_back_mut)
\* returned replaces the element of the front (back) node and nothing else:
\* head, tail, links, owner counts and the other elements stay, and once the
\* view is released peek_front and pop_front (peek_back and pop_back) report
\* the written value.  Releasing a view changes borrow flags only.
C16_WriteThroughView ==
    [][/\ Writes =>
             \A n \in NodeIds : held[n] = -1 =>
                 /\ ViewFrame
                 /\ nodes'[n].elem = lastOp'.arg
                 /\ \A m \in NodeIds : m # n => nodes'[m].elem = nodes[m].elem
                 /\ viewOf \in {"front", "back"}
                 /\ viewOf = "front" =>
                        /\ n = head
                        /\ peek_front(MutReleased(n)).ret = lastOp'.arg
                        /\ ~peek_front(MutReleased(n)).panic
                        /\ LET r == pop_front(MutReleased(n))
                           IN  /\ ~r.panic => r.ret = lastOp'.arg
                               /\ leaks = 0 => ~r.panic
                 /\ viewOf = "back" =>
                        /\ n = tail
                        /\ peek_back(MutReleased(n)).ret = lastOp'.arg
                        /\ ~peek_back(MutReleased(n)).panic
                        /\ LET r == pop_back(MutReleased(n))
                           IN  /\ ~r.panic => r.ret = lastOp'.arg
                               /\ leaks = 0 => ~r.panic
       /\ Releases =>
             /\ ViewFrame
             /\ \A m \in NodeIds : nodes'[m].elem = nodes[m].elem]_vars

\* A value was written through the view peek_front_mut returned on a list
\* of two elements: the front element is the written value, the back
\* element is another value, as it was.
C16_Witness ==
    /\ lastOp.op = "write" /\ viewOf = "front" /\ pc = "live"
    /\ head # None /\ head # tail /\ held[head] = -1
    /\ nodes[head].elem = lastOp.arg /\ abs[1] = lastOp.arg
    /\ nodes[tail].elem # lastOp.arg /\ Len(abs) = 2

\* No RefCell of the list is borrowed: no view is held and none was
\* forgotten with its borrow.
NoBorrow == \A n \in NodeIds : nodes[n].borrow = 0

\* C18: a push or pop called while no RefCell is borrowed passes every
\* borrow_mut.  Where a pop borrows the new head or tail while it still
\* holds the borrow of the removed node, the two are different nodes: no
\* node's next or prev is the node itself.  A push panics only when the old
\* head (push_front) or old tail (push_back) is borrowed.
C18_NoBorrowFailure ==
    /\ [](\A n \in Alive(nodes) : nodes[n].next # n /\ nodes[n].prev # n)
    /\ [][/\ ((PushesFront \/ PushesBack \/ PopsFront \/ PopBack) /\ NoBorrow) =>
              (~lastOp'.panic /\ pc' # "panicked")
          /\ (PushesFront /\ lastOp'.panic) => (head # None /\ nodes[head].borrow # 0)
          /\ (PushesBack /\ lastOp'.panic) => (tail # None /\ nodes[tail].borrow # 0)
          /\ (PopsFront /\ head # None /\ nodes[head].next # None) =>
                 nodes[head].next # head
          /\ (PopBack /\ tail # None /\ nodes[tail].prev # None) =>
                 nodes[tail].prev # tail]_vars

\* pop_back returned on a list of three elements with no RefCell borrowed:
\* it held the borrow of the old tail while it borrowed the new tail.
C18_Witness ==
    /\ lastOp.op = "pop_back" /\ ~lastOp.panic /\ lastOp.ret # None
    /\ NoBorrow /\ leaks = 0 /\ pc = "live"
    /\ Len(abs) = 2 /\ tail # None /\ tail # head
    /\ Cardinality(Released(nodes)) = 1

\* ========================================== properties: persistent list

\* The elements met walking `next` from link h, and the nodes met.
RECURSIVE PWalk(_, _, _)
PWalk(h, pn, fuel) ==
    IF h = None \/ fuel = 0 THEN <<>>
    ELSE <<pn[h].elem>> \o PWalk(pn[h].next, pn, fuel - 1)

RECURSIVE PReach(_, _, _)
PReach(h, pn, fuel) ==
    IF h = None \/ fuel = 0 THEN {}
    ELSE {h} \cup PReach(pn[h].next, pn, fuel - 1)

PContents(h, pn) == PWalk(h, pn, MaxPNodes + 1)
PNodesOf(h, pn) == PReach(h, pn, MaxPNodes + 1)

\* C8: tail inverts append.  For every list l the caller holds and every
\* element x, l.append(x) has head x, and l.append(x).tail() starts at the very
\* node l starts at (tail allocates nothing) and has l's elements in l's
\* order; l itself is as before.
C8_TailInvertsAppend ==
    \A l \in ListIds, x \in PElems :
        (Live(l) /\ PUnallocated(pnode) # {}) =>
            LET a == append(plist[l].head, pnode, x)
                t == tail_of(a.head, a.nodes)
            IN  /\ head_of(a.head, a.nodes) = x
                /\ PContents(a.head, a.nodes) = <<x>> \o PContents(plist[l].head, pnode)
                /\ t.head = plist[l].head
                /\ PContents(t.head, t.nodes) = PContents(plist[l].head, pnode)
                /\ PContents(plist[l].head, t.nodes) = PContents(plist[l].head, pnode)
                /\ PUnallocated(t.nodes) = PUnallocated(a.nodes)

\* Lists l, a = l.append(x) and t = a.tail() are held, l is not empty, and t
\* starts at l's first node.
C8_Witness ==
    \E l, a, t \in ListIds :
        /\ l # a /\ a # t /\ l # t /\ Live(l) /\ Live(a) /\ Live(t)
        /\ plist[l].head # None /\ plist[a].head # None
        /\ pnode[plist[a].head].next = plist[l].head
        /\ plist[t].head = plist[l].head
        /\ pabs[a] = <<pnode[plist[a].head].elem>> \o pabs[l]
        /\ pabs[t] = pabs[l]
        /\ pnode[plist[l].head].strong = 3

\* C9: no call changes a list the caller holds: across every step a list
\* held before and after starts at the same node and has the same elements,
\* every list held has the elements its making describes (new: none, append:
\* x followed by the receiver's, tail: the receiver's without the first) and
\* all its nodes are alive.
C9_Persistent ==
    /\ [](\A l \in ListIds : plist[l].live =>
              /\ PContents(plist[l].head, pnode) = pabs[l]
              /\ \A n \in PNodesOf(plist[l].head, pnode) :
                     pnode[n].alloc /\ pnode[n].strong >= 1 /\ pnode[n].freed = 0)
    /\ [][\A l \in ListIds : (plist[l].live /\ plist'[l].live) =>
              /\ plist'[l].head = plist[l].head
              /\ PContents(plist'[l].head, pnode') = PContents(plist[l].head, pnode)]_vars

\* list1 = A -> B, list2 = list1.tail() = B, list3 = list2.append(X) = X -> B,
\* all three held, B shared by the three.
C9_Witness ==
    \E l1, l2, l3 \in ListIds :
        /\ Live(l1) /\ Live(l2) /\ Live(l3)
        /\ Len(pabs[l1]) = 2 /\ pabs[l2] = Tail(pabs[l1])
        /\ Len(pabs[l3]) = 2 /\ Tail(pabs[l3]) = pabs[l2] /\ pabs[l3][1] # pabs[l1][1]
        /\ PContents(plist[l1].head, pnode) = pabs[l1]
        /\ PContents(plist[l3].head, pnode) = pabs[l3]
        /\ pnode[plist[l1].head].next = plist[l2].head
        /\ pnode[plist[l3].head].next = plist[l2].head

\* C10: the k-th call of next on an iterator over a list yields the k-th
\* element of the list, latest append first; every call after the last
\* element returns None; no call of next changes a list or a node.
C10_IterYieldsAll ==
    [][PIterNext =>
          LET k == Len(iter.out)
              elems == pabs[iter.list]
          IN  /\ plist' = plist /\ pnode' = pnode
              /\ iter'.list = iter.list
              /\ IF k < Len(elems)
                 THEN /\ plast'.ret = elems[k + 1]
                      /\ iter'.out = Append(iter.out, elems[k + 1])
                      /\ ~iter'.ended
                 ELSE /\ plast'.ret = None
                      /\ iter'.out = elems
                      /\ iter'.ended /\ iter'.next = None]_vars

\* An iterator over a list of three appends yielded 3, 2, 1 and then None.
C10_Witness ==
    /\ iter.list # None /\ iter.ended
    /\ iter.out = <<3, 2, 1>> /\ iter.out = pabs[iter.list]
    /\ plast.op = "next" /\ plast.ret = None

\* list.tail().tail()... with k calls of tail, every list made kept alive.
RECURSIVE tail_n(_, _, _)
tail_n(h, pn, k) ==
    IF k = 0 THEN PRes(h, pn)
    ELSE LET t == tail_of(h, pn) IN tail_n(t.head, t.nodes, k - 1)

\* C17: tail of an empty list is an empty list, made without touching the
\* heap, and head of an empty list is None; for a list of n elements, tail
\* taken k >= n times gives the empty list (whose head is None), and taken
\* k < n times the list of the last n - k elements.
C17_EmptyTailHead ==
    /\ [](\A l \in ListIds : Live(l) =>
              \A k \in 0..(MaxPNodes + 1) :
                  LET n == Len(pabs[l])
                      t == tail_n(plist[l].head, pnode, k)
                  IN  /\ k >= n =>
                             /\ t.head = None
                             /\ head_of(t.head, t.nodes) = None
                             /\ tail_of(t.head, t.nodes) = PRes(None, t.nodes)
                      /\ k < n =>
                             /\ PContents(t.head, t.nodes) = SubSeq(pabs[l], k + 1, n)
                             /\ head_of(t.head, t.nodes) = pabs[l][k + 1])
    /\ [][\A l \in ListIds :
              /\ (PTail(l) /\ plist[l].head = None) =>
                     /\ plist'[plast'.ret] = [live |-> TRUE, head |-> None]
                     /\ pnode' = pnode
                     /\ \A m \in ListIds : m # plast'.ret => plist'[m] = plist[m]
              /\ (PHead(l) /\ plist[l].head = None) =>
                     /\ plast'.ret = None
                     /\ plist' = plist /\ pnode' = pnode]_vars

\* A list of one element and two empty lists are held; the last call was
\* tail on one of the empty lists and returned the other.
C17_Witness ==
    \E l1, l2 \in ListIds :
        /\ plast.op = "tail" /\ plast.list = l2 /\ plast.ret \notin {l1, l2}
        /\ Live(l1) /\ Live(l2) /\ Live(plast.ret)
        /\ Len(pabs[l1]) = 1 /\ plist[l1].head # None
        /\ plist[l2].head = None /\ plist[plast.ret].head = None
        /\ pnode[plist[l1].head].strong = 1

\* The persistent nodes that are alive, that were released, and the owners
\* of node n: the lists held that start at n and the alive nodes whose next
\* is n.
PAlive(pn) == {n \in PNodeIds : pn[n].alloc /\ pn[n].strong > 0}
PReleased(pn) == {n \in PNodeIds : pn[n].freed > 0}
POwners(n) ==
    Cardinality({l \in ListIds : Live(l) /\ plist[l].head = n})
    + Cardinality({m \in PAlive(pnode) : pnode[m].next = n})

\* The nodes the lists held can reach, and those the lists held other than l
\* can reach.
HeldReach ==
    UNION {PNodesOf(plist[m].head, pnode) : m \in {x \in ListIds : Live(x)}}

OthersReach(l) ==
    UNION {PNodesOf(plist[m].head, pnode) : m \in {x \in ListIds : x # l /\ Live(x)}}

\* C19: dropping a list releases exactly the nodes no other list held can
\* reach, each once: the walk goes through the nodes this list owned alone
\* and stops at the first node with another owner, whose count goes down by
\* one; every node behind it, and every other list, is as before.  The
\* count of a node is the number of its owners, every alive node is
\* reachable from a list held, and when no list is held every node ever
\* allocated has been released exactly once.
C19_DropReleasesUnshared ==
    /\ [](/\ \A n \in PNodeIds : pnode[n].freed <= 1
          /\ \A n \in PAlive(pnode) : pnode[n].strong = POwners(n)
          /\ PAlive(pnode) = HeldReach
          /\ (\A l \in ListIds : ~Live(l)) =>
                 \A n \in PNodeIds : pnode[n].alloc =>
                     (pnode[n].freed = 1 /\ pnode[n].strong = 0))
    /\ [][\A l \in ListIds : PDrop(l) =>
              LET mine == PNodesOf(plist[l].head, pnode)
                  gone == mine \ OthersReach(l)
                  walk == PReach(plist[l].head, pnode, Cardinality(gone) + 1)
                  stop == walk \ gone
              IN  /\ PReleased(pnode') \ PReleased(pnode) = gone
                  /\ PAlive(pnode') = PAlive(pnode) \ gone
                  /\ \A n \in stop :
                         /\ pnode[n].strong > 1
                         /\ pnode'[n] = [pnode[n] EXCEPT !.strong = @ - 1]
                  /\ \A n \in PNodeIds \ walk : pnode'[n] = pnode[n]
                  /\ \A m \in ListIds : m # l =>
                         /\ plist'[m] = plist[m]
                         /\ PContents(plist'[m].head, pnode')
                                = PContents(plist[m].head, pnode)]_vars

\* Two lists held start at the same node, and the only other node ever
\* allocated, which was appended in front of it, has been released: the list
\* of two elements was dropped while its second node was shared, and the
\* walk stopped there.
C19_Witness ==
    \E a, c \in ListIds, n, r \in PNodeIds :
        /\ a # c /\ Live(a) /\ Live(c) /\ n # r
        /\ plist[a].head = n /\ plist[c].head = n
        /\ pnode[n].strong = 2 /\ pnode[n].next = None
        /\ pnode[r].freed = 1 /\ pnode[r].strong = 0
        /\ \A m \in PNodeIds \ {n, r} : ~pnode[m].alloc

====
